---- MODULE Spec2Model ----
(***************************************************************************)
(* Model of game.py: a non-transitive dice game between a computer and a   *)
(* human, with HMAC commit/reveal exchanges for the first move and for     *)
(* each of the two throws.                                                 *)
(*                                                                         *)
(* The program is sequential and blocks only in input().  One action is    *)
(* everything the program does between two blocking reads: it consumes the *)
(* line the human typed and runs the code up to the next prompt (or to     *)
(* the end of the process).  Strings are sequences of one-character        *)
(* strings; die indices are 0-based as in the source, TLA+ sequences are   *)
(* 1-based, so die i is dice[i + 1] and face j of a die is values[j + 1].  *)
(***************************************************************************)
EXTENDS Integers, Sequences, FiniteSets, TLC

\* Number of times a game may re-enter a step on a rejected line or on "?"
\* (the program allows some 990 re-entries, Python's recursion limit).
MaxRetries == 1

\* Number of distinct secret keys the model draws from (256-bit in the source).
MaxKey == 2

\* Largest face value of the dice the probability table is checked on.
MaxFace == 2

Keys == 0 .. (MaxKey - 1)

-----------------------------------------------------------------------------
(* Strings *)

Digits == {"0", "1", "2", "3", "4", "5", "6", "7", "8", "9"}

DigitChars == <<"0", "1", "2", "3", "4", "5", "6", "7", "8", "9">>

digit_value(ch) == CHOOSE d \in 0 .. 9 : DigitChars[d + 1] = ch

RECURSIVE str(_)
str(n) ==
    IF n < 0 THEN <<"-">> \o str(0 - n)
    ELSE IF n < 10 THEN <<DigitChars[n + 1]>>
    ELSE str(n \div 10) \o <<DigitChars[(n % 10) + 1]>>

RECURSIVE join(_, _)
join(sep, parts) ==
    IF Len(parts) = 0 THEN <<>>
    ELSE IF Len(parts) = 1 THEN parts[1]
    ELSE parts[1] \o sep \o join(sep, Tail(parts))

join_values(values) == join(<<",">>, [i \in 1 .. Len(values) |-> str(values[i])])

\* The characters str.strip() removes: blank, tab, line feed, carriage
\* return, form feed, vertical tab, the separators 0x1c .. 0x1f, and in
\* Latin-1 next line (0x85) and no-break space (0xa0).
Whitespace ==
    {" ", "\t", "\n", "\r", "\f", "", "", "", "", "",
     "", " "}

\* The characters int() skips around a literal: those of Whitespace but the
\* separators 0x1c .. 0x1f.
IntWhitespace ==
    {" ", "\t", "\n", "\r", "\f", "", "", " "}

RECURSIVE lstrip_of(_, _)
lstrip_of(s, ws) ==
    IF Len(s) > 0 /\ s[1] \in ws THEN lstrip_of(Tail(s), ws) ELSE s

RECURSIVE rstrip_of(_, _)
rstrip_of(s, ws) ==
    IF Len(s) > 0 /\ s[Len(s)] \in ws
    THEN rstrip_of(SubSeq(s, 1, Len(s) - 1), ws)
    ELSE s

lstrip(s) == lstrip_of(s, Whitespace)

rstrip(s) == rstrip_of(s, Whitespace)

strip(s) == rstrip(lstrip(s))

\* The capitals str.lower() changes, A .. Z and those of Latin-1, and below
\* them what it changes them to.
UpperChars ==
    <<"A", "B", "C", "D", "E", "F", "G", "H", "I", "J", "K", "L", "M",
      "N", "O", "P", "Q", "R", "S", "T", "U", "V", "W", "X", "Y", "Z",
      "À", "Á", "Â", "Ã", "Ä", "Å", "Æ", "Ç", "È", "É",
      "Ê", "Ë", "Ì", "Í", "Î", "Ï", "Ð", "Ñ", "Ò", "Ó",
      "Ô", "Õ", "Ö", "Ø", "Ù", "Ú", "Û", "Ü", "Ý", "Þ">>

LowerChars ==
    <<"a", "b", "c", "d", "e", "f", "g", "h", "i", "j", "k", "l", "m",
      "n", "o", "p", "q", "r", "s", "t", "u", "v", "w", "x", "y", "z",
      "à", "á", "â", "ã", "ä", "å", "æ", "ç", "è", "é",
      "ê", "ë", "ì", "í", "î", "ï", "ð", "ñ", "ò", "ó",
      "ô", "õ", "ö", "ø", "ù", "ú", "û", "ü", "ý", "þ">>

UpperSet == {UpperChars[i] : i \in 1 .. Len(UpperChars)}

lower_char(ch) ==
    IF ch \in UpperSet
    THEN LowerChars[CHOOSE i \in 1 .. Len(UpperChars) : UpperChars[i] = ch]
    ELSE ch

lower(s) == [i \in 1 .. Len(s) |-> lower_char(s[i])]

RECURSIVE split(_, _)
split(s, sep) ==
    IF \E i \in 1 .. Len(s) : s[i] = sep
    THEN LET i == CHOOSE j \in 1 .. Len(s) :
                      s[j] = sep /\ \A k \in 1 .. (j - 1) : s[k] # sep
         IN  <<SubSeq(s, 1, i - 1)>> \o split(SubSeq(s, i + 1, Len(s)), sep)
    ELSE <<s>>

int_strip(s) == rstrip_of(lstrip_of(s, IntWhitespace), IntWhitespace)

\* An integer literal once surrounding whitespace and a sign are gone.
int_body(s) ==
    LET t == int_strip(s)
    IN  IF Len(t) > 0 /\ t[1] \in {"+", "-"} THEN Tail(t) ELSE t

\* The longest digit string int() converts (sys.int_info.default_max_str_digits).
MaxStrDigits == 4300

is_digit(ch) == ch \in Digits

\* TRUE iff int(s) returns, FALSE iff it raises ValueError: the body is
\* digits, with single underscores allowed between two digits, and no more
\* than MaxStrDigits digits.
literal_ok(b) ==
    /\ Len(b) > 0
    /\ b[1] \in Digits
    /\ b[Len(b)] \in Digits
    /\ \A i \in 1 .. Len(b) : b[i] \in Digits \/ b[i] = "_"
    /\ \A i \in 1 .. (Len(b) - 1) : ~(b[i] = "_" /\ b[i + 1] = "_")
    /\ Len(SelectSeq(b, is_digit)) <= MaxStrDigits

int_ok(s) == literal_ok(int_body(s))

\* The value of the digits of ds; the underscores between them count for
\* nothing.
RECURSIVE digits_value(_)
digits_value(ds) ==
    IF Len(ds) = 0 THEN 0
    ELSE IF ds[Len(ds)] = "_" THEN digits_value(SubSeq(ds, 1, Len(ds) - 1))
    ELSE 10 * digits_value(SubSeq(ds, 1, Len(ds) - 1))
             + digit_value(ds[Len(ds)])

InvalidLiteralMessage == "invalid literal for int() with base 10"

ExceedsLimitMessage ==
    "Exceeds the limit (4300 digits) for integer string conversion"

\* The digits and underscores int() scans at the start of a body, up to the
\* first other character.
digit_run(b) ==
    LET bad == {i \in 1 .. Len(b) : ~(is_digit(b[i]) \/ b[i] = "_")}
    IN  IF bad = {} THEN b
        ELSE SubSeq(b, 1, (CHOOSE i \in bad : \A j \in bad : i <= j) - 1)

\* The text of the ValueError int(s) raises when ~int_ok(s): the digit limit
\* is tested once the scanned run is well formed, before what follows the
\* run is looked at.
int_message(s) ==
    LET r == digit_run(int_body(s))
    IN  IF /\ Len(r) > 0
           /\ r[1] # "_"
           /\ r[Len(r)] # "_"
           /\ \A i \in 1 .. (Len(r) - 1) : ~(r[i] = "_" /\ r[i + 1] = "_")
           /\ Len(SelectSeq(r, is_digit)) > MaxStrDigits
        THEN ExceedsLimitMessage
        ELSE InvalidLiteralMessage

int(s) ==
    LET t == int_strip(s)
    IN  IF Len(t) > 0 /\ t[1] = "-" THEN 0 - digits_value(int_body(s))
        ELSE digits_value(int_body(s))

-----------------------------------------------------------------------------
(* Dice and the argument parser *)

FaceCount == 6

\* Dice.__init__ accepts the values iff there are exactly six of them.
Dice_ok(values) == Len(values) = FaceCount

\* Dice.roll: 0-based lookup in the face list.
roll(values, index) == values[index + 1]

\* One argument is a valid die iff every comma-separated field is an integer
\* literal and Dice() accepts the resulting list.
arg_ok(arg) ==
    LET fields == split(arg, ",")
    IN  /\ \A i \in 1 .. Len(fields) : int_ok(fields[i])
        /\ Dice_ok(fields)

arg_values(arg) ==
    LET fields == split(arg, ",")
    IN  [i \in 1 .. Len(fields) |-> int(fields[i])]

TooFewMessage == "At least 3 dice configurations are required."

InvalidMessage == "Invalid dice configuration: "

\* The text Dice.__init__ raises, which parse catches and replaces.
FaceCountMessage == "Each die must have exactly 6 values."

parse_min_two(args) ==
    IF Len(args) < 2
    THEN [ok |-> FALSE, message |-> TooFewMessage, arg |-> <<>>, dice |-> <<>>]
    ELSE IF \E i \in 1 .. Len(args) : ~arg_ok(args[i])
    THEN [ok |-> FALSE, message |-> InvalidMessage, arg |-> <<>>, dice |-> <<>>]
    ELSE [ok |-> TRUE, message |-> "", arg |-> <<>>,
          dice |-> [i \in 1 .. Len(args) |-> arg_values(args[i])]]

parse(args) ==
    IF Len(args) < 3
    THEN [ok |-> FALSE, message |-> TooFewMessage, arg |-> <<>>, dice |-> <<>>]
    ELSE IF \E i \in 1 .. Len(args) : ~arg_ok(args[i])
    THEN LET i == CHOOSE j \in 1 .. Len(args) :
                      ~arg_ok(args[j]) /\ \A k \in 1 .. (j - 1) : arg_ok(args[k])
         IN  [ok |-> FALSE, message |-> InvalidMessage, arg |-> args[i], dice |-> <<>>]
    ELSE [ok |-> TRUE, message |-> "", arg |-> <<>>,
          dice |-> [i \in 1 .. Len(args) |-> arg_values(args[i])]]

-----------------------------------------------------------------------------
(* Commitments *)

\* hmac.new(key, str(value), sha3_256): idealised as an injective function of
\* the key and the message, which is what collision resistance provides.
KeyedHash(key, value) == (key + 1) * 16 + value + 1

generate_fair_number(min_val, max_val) ==
    {[value |-> v, key |-> k, tag |-> KeyedHash(k, v)] :
        v \in min_val .. max_val, k \in Keys}

NoCommit == [value |-> -1, key |-> -1, tag |-> -1]

NoTag == -1

NoReveal == [exchange |-> "none", value |-> -1, key |-> -1, tag |-> -1,
             user |-> -1, result |-> -1]

NoDie == -1

-----------------------------------------------------------------------------
(* Inputs *)

\* The command lines the model starts from (sys.argv[1:]).
DiceA == <<2, 2, 4, 4, 9, 9>>

DiceB == <<1, 1, 6, 6, 8, 8>>

DiceC == <<3, 3, 5, 5, 7, 7>>

DiceD == <<6, 8, 1, 1, 8, 6>>

ArgvSet ==
    { <<>>,
      <<join_values(<<1, 2, 3, 4, 5>>)>>,
      <<join_values(DiceA), join_values(DiceB)>>,
      <<join_values(DiceD), join_values(DiceB), join_values(DiceA)>>,
      <<join_values(DiceA), join_values(<<1, 2, 3, 4, 5>>), join_values(DiceC)>>,
      <<join_values(DiceA), join_values(DiceB), <<"1", ",", "a", ",", "3", ",",
        "4", ",", "5", ",", "6">> >> }

\* The lines the human may type at a prompt.
Inputs ==
    { <<"0">>, <<"1">>, <<"2">>, <<"6">>,
      <<"x">>, <<"X">>, <<"?">>, <<"a">>, <<"-", "1">>,
      <<" ", "", "0", "_", "1", "\t">> }

NoInput == <<"<", ">">>

\* Command lines of three dice, two of them ranging over every die with
\* faces in 1 .. MaxFace (faces in ascending order).
TableDice ==
    {d \in [1 .. FaceCount -> 1 .. MaxFace] :
        \A i \in 1 .. (FaceCount - 1) : d[i] <= d[i + 1]}

TableArgvSet ==
    {<<join_values(a), join_values(b), join_values(DiceC)>> : a, b \in TableDice}

\* The lines typed in the runs that only ask for the table.
HelpInputs == { <<"?">> }

-----------------------------------------------------------------------------
(* ProbabilityCalculator; probabilities are in units of 1/Scale *)

\* round(x, 4) keeps four decimal digits.
Scale == 10000

\* The literal 0.3333 written on the diagonal.
TieProbability == 3333

win_count_or_equal(dice_a, dice_b) ==
    Cardinality({p \in (1 .. Len(dice_a)) \X (1 .. Len(dice_b)) :
                    dice_a[p[1]] >= dice_b[p[2]]})

\* The pairs of faces compare_dice counts as wins of dice_a.
win_count(dice_a, dice_b) ==
    Cardinality({p \in (1 .. Len(dice_a)) \X (1 .. Len(dice_b)) :
                    dice_a[p[1]] > dice_b[p[2]]})

total_count(dice_a, dice_b) == Len(dice_a) * Len(dice_b)

\* round(win_count / total_count, 4): the nearest multiple of 1/Scale (with 36
\* pairs the quotient is never half-way between two of them).
compare_dice(dice_a, dice_b) ==
    (2 * Scale * win_count(dice_a, dice_b) + total_count(dice_a, dice_b))
        \div (2 * total_count(dice_a, dice_b))

calculate_probabilities(ds) ==
    [i \in 1 .. Len(ds) |->
        [j \in 1 .. Len(ds) |->
            IF i = j THEN TieProbability ELSE compare_dice(ds[i], ds[j])]]

-----------------------------------------------------------------------------
(* State *)

VARIABLES
    argv,            \* sys.argv[1:]
    status,          \* "start", "running", "usage", "error", "crashed", "exited", "finished"
    exit_code,       \* exit status of the process, -1 while it runs
    message,         \* text of the ValueError printed by main, "" if none
    phase,           \* "Start", "DetermineFirstMover", "SelectDice", "ThrowComputer", "ThrowUser", "Resolved"
    dice,            \* Game.dice: the face lists, in argument order
    remaining_dice,  \* Game.remaining_dice: indices still selectable
    first_mover,     \* "none", "computer" or "user"
    computer_choice, \* index of the computer's die, NoDie before it is bound
    user_choice,     \* index of the human's die, NoDie before it is bound
    computer_throw,  \* <<face>> once the computer's throw is made, else <<>>
    user_throw,      \* <<face>> once the human's throw is made, else <<>>
    outcome,         \* "none", "user", "computer" or "tie"
    pending,         \* computer_number, secret_key, hmac_value of the open exchange
    published,       \* the HMAC printed for the open exchange
    revealed,        \* the last "My selection / My number ... (KEY=...)" printed
    lastInput,       \* the last line read by input()
    nCommits,        \* calls of generate_fair_number so far
    nRevealed,       \* keys printed so far
    help_table,      \* the matrix help_option printed for the last line read, else <<>>
    select_depth     \* user_select_dice calls re-entered from within themselves and not yet returned

vars == <<argv, status, exit_code, message, phase, dice, remaining_dice,
          first_mover, computer_choice, user_choice, computer_throw,
          user_throw, outcome, pending, published, revealed, lastInput,
          nCommits, nRevealed, help_table,
          select_depth>>

\* The process before main has run.
Started ==
    /\ status = "start"
    /\ exit_code = -1
    /\ message = ""
    /\ phase = "Start"
    /\ dice = <<>>
    /\ remaining_dice = <<>>
    /\ first_mover = "none"
    /\ computer_choice = NoDie
    /\ user_choice = NoDie
    /\ computer_throw = <<>>
    /\ user_throw = <<>>
    /\ outcome = "none"
    /\ pending = NoCommit
    /\ published = NoTag
    /\ revealed = NoReveal
    /\ lastInput = NoInput
    /\ nCommits = 0
    /\ nRevealed = 0
    /\ help_table = <<>>
    /\ select_depth = 0

Init == argv \in ArgvSet /\ Started

InitTable == argv \in TableArgvSet /\ Started

-----------------------------------------------------------------------------
(* Pieces of the handlers *)

\* The line as the three prompts keep it: input(...).strip().
stripped(inp) == strip(inp)

is_exit(inp) == lower(strip(inp)) = <<"x">>

is_help(inp) == lower(strip(inp)) = <<"?">>

\* What a re-entered step prints besides its prompt: help_option's table
\* after "?", nothing after a rejected line.
help_option(inp) ==
    IF is_help(inp) THEN calculate_probabilities(dice) ELSE <<>>

\* The try block of determine_first_move accepts the guess.
guess_ok(inp) == int_ok(stripped(inp)) /\ int(stripped(inp)) \in {0, 1}

\* The try block of play_throw accepts the number.
number_ok(inp) ==
    /\ int_ok(stripped(inp))
    /\ 0 <= int(stripped(inp))
    /\ int(stripped(inp)) <= 5

first_mover_of_swapped(computer_number, user_guess) ==
    IF computer_number = user_guess THEN "computer" ELSE "user"

first_mover_of_computer(computer_number, user_guess) == "computer"

first_mover_of(computer_number, user_guess) ==
    IF computer_number # user_guess THEN "computer" ELSE "user"

computer_pick_last(remaining) == remaining[Len(remaining)]

\* remaining_dice.pop(0) returns the first element.
computer_pick(remaining) == Head(remaining)

in_list(index, remaining) == \E i \in 1 .. Len(remaining) : remaining[i] = index

remove_none(remaining, index) == remaining

\* list.remove(index): drops the first occurrence.
RECURSIVE remove(_, _)
remove(remaining, index) ==
    IF Len(remaining) = 0 THEN <<>>
    ELSE IF Head(remaining) = index THEN Tail(remaining)
    ELSE <<Head(remaining)>> \o remove(Tail(remaining), index)

\* self.dice[index] with Python's negative indexing; raises IndexError outside.
index_ok(index, n) == 0 - n <= index /\ index < n

combine_off_by_one(computer_number, user_number) ==
    (computer_number + user_number + 1) % 6

combine_doubling(computer_number, user_number) ==
    (2 * computer_number + user_number) % 6

combine(computer_number, user_number) == (computer_number + user_number) % 6

winner_ties_to_user(user_face, computer_face) ==
    IF user_face >= computer_face THEN "user" ELSE "computer"

winner(user_face, computer_face) ==
    IF user_face > computer_face THEN "user"
    ELSE IF user_face < computer_face THEN "computer"
    ELSE "tie"

throw_order_swapped == <<"ThrowUser", "ThrowComputer">>

\* start_game throws for the computer first, then for the human.
throw_order == <<"ThrowComputer", "ThrowUser">>

\* Commitments drawn by re-entered steps so far: every prompt reached draws
\* one, every re-entry one more.
retries ==
    nCommits - (CASE phase = "DetermineFirstMover" -> 1
                  [] phase = "ThrowComputer" -> 2
                  [] phase = "ThrowUser" -> 3
                  [] OTHER -> nCommits)

\* generate_fair_number followed by the print of its HMAC.
Commit(min_val, max_val) ==
    \E c \in generate_fair_number(min_val, max_val) :
        /\ pending' = c
        /\ published' = c.tag
        /\ nCommits' = nCommits + 1

Exit_revealing(inp) ==
    /\ lastInput' = inp
    /\ help_table' = <<>>
    /\ select_depth' = 0
    /\ status' = "exited"
    /\ exit_code' = 0
    /\ revealed' = [exchange |-> "exit", value |-> pending.value,
                    key |-> pending.key, tag |-> published,
                    user |-> -1, result |-> -1]
    /\ UNCHANGED <<argv, message, phase, dice, remaining_dice, first_mover,
                   computer_choice, user_choice, computer_throw, user_throw,
                   outcome, pending, published, nCommits, nRevealed>>

\* print("Exiting the game."); sys.exit(0)
Exit(inp) ==
    /\ lastInput' = inp
    /\ help_table' = <<>>
    /\ select_depth' = 0
    /\ status' = "exited"
    /\ exit_code' = 0
    /\ UNCHANGED <<argv, message, phase, dice, remaining_dice, first_mover,
                   computer_choice, user_choice, computer_throw, user_throw,
                   outcome, pending, published, revealed, nCommits, nRevealed>>

-----------------------------------------------------------------------------
(* main *)

main_usage ==
    /\ status = "start"
    /\ Len(argv) < 1
    /\ status' = "usage"
    /\ exit_code' = 0
    /\ UNCHANGED <<argv, message, phase, dice, remaining_dice, first_mover,
                   computer_choice, user_choice, computer_throw, user_throw,
                   outcome, pending, published, revealed, lastInput, nCommits,
                   nRevealed, help_table, select_depth>>

main_error ==
    /\ status = "start"
    /\ Len(argv) >= 1
    /\ ~parse(argv).ok
    /\ status' = "error"
    /\ message' = parse(argv).message
    /\ exit_code' = 0
    /\ UNCHANGED <<argv, phase, dice, remaining_dice, first_mover,
                   computer_choice, user_choice, computer_throw, user_throw,
                   outcome, pending, published, revealed, lastInput, nCommits,
                   nRevealed, help_table, select_depth>>

\* parse succeeds, Game(dice) is built and start_game runs determine_first_move
\* up to its prompt.
main_start ==
    /\ status = "start"
    /\ Len(argv) >= 1
    /\ parse(argv).ok
    /\ status' = "running"
    /\ dice' = parse(argv).dice
    /\ remaining_dice' = [i \in 1 .. Len(parse(argv).dice) |-> i - 1]
    /\ phase' = "DetermineFirstMover"
    /\ Commit(0, 1)
    /\ UNCHANGED <<argv, exit_code, message, first_mover, computer_choice,
                   user_choice, computer_throw, user_throw, outcome, revealed,
                   lastInput, nRevealed, help_table, select_depth>>

main == main_usage \/ main_error \/ main_start

-----------------------------------------------------------------------------
(* determine_first_move, from its input() on *)

dfm_retry_keeping(inp) ==
    /\ ~is_exit(inp)
    /\ is_help(inp) \/ ~guess_ok(inp)
    /\ lastInput' = inp
    /\ help_table' = help_option(inp)
    /\ UNCHANGED select_depth
    /\ UNCHANGED <<argv, status, exit_code, message, phase, dice,
                   remaining_dice, first_mover, computer_choice, user_choice,
                   computer_throw, user_throw, outcome, pending, published,
                   revealed, nCommits, nRevealed>>

\* "?" or a rejected guess: the function calls itself, which draws and
\* publishes a new commitment before reading again.
dfm_retry(inp) ==
    /\ ~is_exit(inp)
    /\ is_help(inp) \/ ~guess_ok(inp)
    /\ retries < MaxRetries
    /\ lastInput' = inp
    /\ help_table' = help_option(inp)
    /\ UNCHANGED select_depth
    /\ Commit(0, 1)
    /\ UNCHANGED <<argv, status, exit_code, message, phase, dice,
                   remaining_dice, first_mover, computer_choice, user_choice,
                   computer_throw, user_throw, outcome, revealed, nRevealed>>

\* An accepted guess: reveal, decide the first mover; start_game then lets the
\* computer select if it moves first and shows the human's selection prompt.
dfm_accept(inp) ==
    /\ ~is_exit(inp)
    /\ ~is_help(inp)
    /\ guess_ok(inp)
    /\ lastInput' = inp
    /\ help_table' = <<>>
    /\ UNCHANGED select_depth
    /\ revealed' = [exchange |-> "first_move", value |-> pending.value,
                    key |-> pending.key, tag |-> published,
                    user |-> int(stripped(inp)), result |-> -1]
    /\ nRevealed' = nRevealed + 1
    /\ first_mover' = first_mover_of(pending.value, int(stripped(inp)))
    /\ IF first_mover_of(pending.value, int(stripped(inp))) = "computer"
       THEN /\ computer_choice' = computer_pick(remaining_dice)
            /\ remaining_dice' = Tail(remaining_dice)
       ELSE UNCHANGED <<computer_choice, remaining_dice>>
    /\ pending' = NoCommit
    /\ published' = NoTag
    /\ phase' = "SelectDice"
    /\ UNCHANGED <<argv, status, exit_code, message, dice, user_choice,
                   computer_throw, user_throw, outcome, nCommits>>

determine_first_move(inp) ==
    /\ status = "running"
    /\ phase = "DetermineFirstMover"
    /\ \/ is_exit(inp) /\ Exit(inp)
       \/ dfm_retry(inp)
       \/ dfm_accept(inp)

-----------------------------------------------------------------------------
(* user_select_dice, from its input() on *)

select_retry_popping(inp) ==
    /\ ~is_exit(inp)
    /\ \/ is_help(inp)
       \/ /\ int_ok(stripped(inp))
          /\ index_ok(int(stripped(inp)), Len(dice))
          /\ ~in_list(int(stripped(inp)), remaining_dice)
    /\ lastInput' = inp
    /\ select_depth < MaxRetries
    /\ help_table' = help_option(inp)
    /\ select_depth' = select_depth + 1
    /\ remaining_dice' = Tail(remaining_dice)
    /\ UNCHANGED <<argv, status, exit_code, message, phase, dice,
                   first_mover, computer_choice, user_choice,
                   computer_throw, user_throw, outcome, pending, published,
                   revealed, nCommits, nRevealed>>

\* "?" prints the table and asks again; so does an index that self.dice
\* accepts but that is not in remaining_dice. Asking again is a call of
\* user_select_dice from within itself: select_depth counts the calls
\* entered that way, at most MaxRetries of them here.
select_retry(inp) ==
    /\ ~is_exit(inp)
    /\ \/ is_help(inp)
       \/ /\ int_ok(stripped(inp))
          /\ index_ok(int(stripped(inp)), Len(dice))
          /\ ~in_list(int(stripped(inp)), remaining_dice)
    /\ lastInput' = inp
    /\ select_depth < MaxRetries
    /\ help_table' = help_option(inp)
    /\ select_depth' = select_depth + 1
    /\ UNCHANGED <<argv, status, exit_code, message, phase, dice,
                   remaining_dice, first_mover, computer_choice, user_choice,
                   computer_throw, user_throw, outcome, pending, published,
                   revealed, nCommits, nRevealed>>

\* int(selection) in the "You choose" print is outside the try block: its
\* ValueError unwinds start_game and is printed by main.
select_value_error(inp) ==
    /\ ~is_exit(inp)
    /\ ~is_help(inp)
    /\ ~int_ok(stripped(inp))
    /\ lastInput' = inp
    /\ help_table' = <<>>
    /\ select_depth' = 0
    /\ status' = "error"
    /\ message' = int_message(stripped(inp))
    /\ exit_code' = 0
    /\ UNCHANGED <<argv, phase, dice, remaining_dice, first_mover,
                   computer_choice, user_choice, computer_throw, user_throw,
                   outcome, pending, published, revealed, nCommits, nRevealed>>

\* self.dice[int(selection)] in the same print raises IndexError, which
\* nothing catches.
select_index_error(inp) ==
    /\ ~is_exit(inp)
    /\ ~is_help(inp)
    /\ int_ok(stripped(inp))
    /\ ~index_ok(int(stripped(inp)), Len(dice))
    /\ lastInput' = inp
    /\ help_table' = <<>>
    /\ select_depth' = 0
    /\ status' = "crashed"
    /\ exit_code' = 1
    /\ UNCHANGED <<argv, message, phase, dice, remaining_dice, first_mover,
                   computer_choice, user_choice, computer_throw, user_throw,
                   outcome, pending, published, revealed, nCommits, nRevealed>>

\* A selectable index: the human is bound to it; start_game lets the computer
\* select if it moves second, and play_throw for the first throw runs up to
\* its prompt.
select_accept(inp) ==
    /\ ~is_exit(inp)
    /\ ~is_help(inp)
    /\ int_ok(stripped(inp))
    /\ index_ok(int(stripped(inp)), Len(dice))
    /\ in_list(int(stripped(inp)), remaining_dice)
    /\ lastInput' = inp
    /\ help_table' = <<>>
    /\ select_depth' = 0
    /\ user_choice' = int(stripped(inp))
    /\ IF first_mover = "computer"
       THEN /\ remaining_dice' = remove(remaining_dice, int(stripped(inp)))
            /\ UNCHANGED computer_choice
       ELSE /\ computer_choice' = computer_pick(remove(remaining_dice, int(stripped(inp))))
            /\ remaining_dice' = Tail(remove(remaining_dice, int(stripped(inp))))
    /\ phase' = throw_order[1]
    /\ Commit(0, 5)
    /\ UNCHANGED <<argv, status, exit_code, message, dice, first_mover,
                   computer_throw, user_throw, outcome, revealed, nRevealed>>

user_select_dice(inp) ==
    /\ status = "running"
    /\ phase = "SelectDice"
    /\ \/ is_exit(inp) /\ Exit(inp)
       \/ select_retry(inp)
       \/ select_value_error(inp)
       \/ select_index_error(inp)
       \/ select_accept(inp)

-----------------------------------------------------------------------------
(* play_throw, from its input() on *)

throw_retry_keeping(inp) ==
    /\ ~is_exit(inp)
    /\ is_help(inp) \/ ~number_ok(inp)
    /\ lastInput' = inp
    /\ help_table' = help_option(inp)
    /\ UNCHANGED select_depth
    /\ UNCHANGED <<argv, status, exit_code, message, phase, dice,
                   remaining_dice, first_mover, computer_choice, user_choice,
                   computer_throw, user_throw, outcome, pending, published,
                   revealed, nCommits, nRevealed>>

throw_retry_revealing(inp) ==
    /\ ~is_exit(inp)
    /\ is_help(inp) \/ ~number_ok(inp)
    /\ retries < MaxRetries
    /\ lastInput' = inp
    /\ help_table' = help_option(inp)
    /\ UNCHANGED select_depth
    /\ revealed' = [exchange |-> IF phase = "ThrowUser" THEN "user_throw"
                                 ELSE "computer_throw",
                    value |-> pending.value, key |-> pending.key,
                    tag |-> published, user |-> -1, result |-> -1]
    /\ nRevealed' = nRevealed + 1
    /\ Commit(0, 5)
    /\ UNCHANGED <<argv, status, exit_code, message, phase, dice,
                   remaining_dice, first_mover, computer_choice, user_choice,
                   computer_throw, user_throw, outcome>>

\* "?" or a rejected number: the function calls itself, which draws and
\* publishes a new commitment before reading again.
throw_retry(inp) ==
    /\ ~is_exit(inp)
    /\ is_help(inp) \/ ~number_ok(inp)
    /\ retries < MaxRetries
    /\ lastInput' = inp
    /\ help_table' = help_option(inp)
    /\ UNCHANGED select_depth
    /\ Commit(0, 5)
    /\ UNCHANGED <<argv, status, exit_code, message, phase, dice,
                   remaining_dice, first_mover, computer_choice, user_choice,
                   computer_throw, user_throw, outcome, revealed, nRevealed>>

throw_reveal_other_value(inp) ==
    [exchange |-> IF phase = "ThrowUser" THEN "user_throw" ELSE "computer_throw",
     value |-> (pending.value + 1) % 6, key |-> pending.key, tag |-> published,
     user |-> int(stripped(inp)), result |-> combine(pending.value, int(stripped(inp)))]

\* The reveal printed for an accepted number.
throw_reveal(inp) ==
    [exchange |-> IF phase = "ThrowUser" THEN "user_throw" ELSE "computer_throw",
     value |-> pending.value, key |-> pending.key, tag |-> published,
     user |-> int(stripped(inp)), result |-> combine(pending.value, int(stripped(inp)))]

\* The die play_throw was called with.
thrown_die ==
    IF phase = "ThrowUser" THEN dice[user_choice + 1] ELSE dice[computer_choice + 1]

\* An accepted number in the first throw: the face is the computer's throw and
\* play_throw for the second throw runs up to its prompt.
throw_accept_first(inp) ==
    /\ phase = throw_order[1]
    /\ ~is_exit(inp)
    /\ ~is_help(inp)
    /\ number_ok(inp)
    /\ lastInput' = inp
    /\ help_table' = <<>>
    /\ UNCHANGED select_depth
    /\ revealed' = throw_reveal(inp)
    /\ nRevealed' = nRevealed + 1
    /\ computer_throw' = <<roll(thrown_die, combine(pending.value, int(stripped(inp))))>>
    /\ phase' = throw_order[2]
    /\ Commit(0, 5)
    /\ UNCHANGED <<argv, status, exit_code, message, dice, remaining_dice,
                   first_mover, computer_choice, user_choice, user_throw,
                   outcome>>

\* An accepted number in the second throw: the face is the human's throw,
\* start_game compares the two faces and the program ends.
throw_accept_second(inp) ==
    /\ phase = throw_order[2]
    /\ ~is_exit(inp)
    /\ ~is_help(inp)
    /\ number_ok(inp)
    /\ lastInput' = inp
    /\ help_table' = <<>>
    /\ UNCHANGED select_depth
    /\ revealed' = throw_reveal(inp)
    /\ nRevealed' = nRevealed + 1
    /\ user_throw' = <<roll(thrown_die, combine(pending.value, int(stripped(inp))))>>
    /\ outcome' = winner(roll(thrown_die, combine(pending.value, int(stripped(inp)))),
                         computer_throw[1])
    /\ pending' = NoCommit
    /\ published' = NoTag
    /\ phase' = "Resolved"
    /\ status' = "finished"
    /\ exit_code' = 0
    /\ UNCHANGED <<argv, message, dice, remaining_dice, first_mover,
                   computer_choice, user_choice, computer_throw, nCommits>>

play_throw(inp) ==
    /\ status = "running"
    /\ phase \in {"ThrowComputer", "ThrowUser"}
    /\ \/ is_exit(inp) /\ Exit(inp)
       \/ throw_retry(inp)
       \/ throw_accept_first(inp)
       \/ throw_accept_second(inp)

-----------------------------------------------------------------------------

Next ==
    \/ main
    \/ \E inp \in Inputs : determine_first_move(inp)
    \/ \E inp \in Inputs : user_select_dice(inp)
    \/ \E inp \in Inputs : play_throw(inp)

Spec == Init /\ [][Next]_vars

\* Runs that start a game on a drawn dice set and ask for the help table at
\* the first prompt.
NextTable ==
    \/ main_start
    \/ \E inp \in HelpInputs : determine_first_move(inp)

SpecTable == InitTable /\ [][NextTable]_vars

-----------------------------------------------------------------------------
(* Properties *)

\* C1: in DetermineFirstMover, for every committed value c and accepted guess
\* g, the computer becomes the first mover iff c # g, and the human iff c = g.
C1_FirstMoverIffDiffers ==
    [][(phase = "DetermineFirstMover" /\ phase' = "SelectDice") =>
          /\ int(stripped(lastInput')) \in {0, 1}
          /\ pending.value \in {0, 1}
          /\ first_mover' = "computer" <=> pending.value # int(stripped(lastInput'))
          /\ first_mover' = "user" <=> pending.value = int(stripped(lastInput'))]_vars

C1_Witness ==
    /\ phase = "SelectDice"
    /\ revealed.exchange = "first_move"
    /\ revealed.value # revealed.user
    /\ first_mover = "computer"

\* C2 as stated: when the accepted guess equals the committed value, the human
\* is not the first mover (the computer selects its die first).
C2_EqualGuessComputerFirst ==
    (phase = "SelectDice" /\ revealed.exchange = "first_move"
        /\ revealed.user = revealed.value)
    => (first_mover = "computer" /\ computer_choice # NoDie)

\* C2 amended: when the accepted guess equals the committed value, the human
\* is the first mover: the human's selection prompt is shown before the
\* computer has taken any die.
C2_EqualGuessHumanFirst ==
    (phase = "SelectDice" /\ revealed.exchange = "first_move"
        /\ revealed.user = revealed.value)
    => (first_mover = "user" /\ computer_choice = NoDie
        /\ Len(remaining_dice) = Len(dice))

C2_Witness ==
    /\ phase = "SelectDice"
    /\ status = "running"
    /\ revealed.exchange = "first_move"
    /\ revealed.user = revealed.value
    /\ first_mover = "user"

\* C3: in each of the three exchanges the tag is published before the human's
\* input is read, value and key are revealed only after a valid input was
\* accepted, and no key of an exchange is revealed while that exchange is open.
C3_RevealOnlyAfterAcceptedInput ==
    LET exchange_of == [p \in {"DetermineFirstMover", "ThrowComputer", "ThrowUser"} |->
                           IF p = "DetermineFirstMover" THEN "first_move"
                           ELSE IF p = "ThrowComputer" THEN "computer_throw"
                           ELSE "user_throw"]
        completed == CASE phase \in {"Start", "DetermineFirstMover"} -> 0
                       [] phase \in {"SelectDice", "ThrowComputer"} -> 1
                       [] phase = "ThrowUser" -> 2
                       [] phase = "Resolved" -> 3
    IN  /\ phase \in DOMAIN exchange_of =>
              /\ pending # NoCommit
              /\ published = pending.tag
              /\ published = KeyedHash(pending.key, pending.value)
              /\ revealed.exchange # exchange_of[phase]
        /\ nRevealed = completed
        /\ revealed.exchange = "first_move" => revealed.user \in {0, 1}
        /\ revealed.exchange \in {"computer_throw", "user_throw"} =>
              revealed.user \in 0 .. 5

C3_Witness ==
    /\ phase = "ThrowUser"
    /\ status = "running"
    /\ lastInput = <<"a">>
    /\ revealed.exchange = "computer_throw"
    /\ pending # NoCommit

\* C4 as stated: at ThrowComputer and ThrowUser a malformed input re-prompts
\* the same step and the commitment in force afterwards is the one that was
\* published before the malformed input.
C4_MalformedThrowKeepsCommitment ==
    [][(status = "running" /\ phase \in {"ThrowComputer", "ThrowUser"}
          /\ ~is_exit(lastInput') /\ ~is_help(lastInput')
          /\ ~(int_ok(stripped(lastInput')) /\ int(stripped(lastInput')) \in 0 .. 5)) =>
          /\ phase' = phase
          /\ status' = "running"
          /\ pending' = pending
          /\ published' = published]_vars

\* C4 amended: at ThrowComputer and ThrowUser a malformed input re-prompts the
\* same step without advancing the state; the commitment published before it
\* is dropped unrevealed and a newly drawn commitment is published before the
\* next input is read.
C4_MalformedThrowDrawsNewCommitment ==
    [][(status = "running" /\ phase \in {"ThrowComputer", "ThrowUser"}
          /\ ~is_exit(lastInput') /\ ~is_help(lastInput')
          /\ ~(int_ok(stripped(lastInput')) /\ int(stripped(lastInput')) \in 0 .. 5)) =>
          /\ phase' = phase
          /\ status' = "running"
          /\ UNCHANGED <<remaining_dice, computer_choice, user_choice,
                         computer_throw, user_throw, outcome>>
          /\ revealed' = revealed
          /\ nRevealed' = nRevealed
          /\ nCommits' = nCommits + 1
          /\ pending' # NoCommit
          /\ pending'.value \in 0 .. 5
          /\ pending'.tag = KeyedHash(pending'.key, pending'.value)
          /\ published' = pending'.tag]_vars

C4_Witness ==
    /\ phase = "ThrowComputer"
    /\ status = "running"
    /\ lastInput = <<"6">>
    /\ nCommits = 3
    /\ computer_throw = <<>>

\* C5: in DetermineFirstMover an invalid guess is rejected, the state stays
\* DetermineFirstMover and a new commitment is drawn and published before the
\* next guess is read; the first mover is decided by the value of the
\* commitment published last before the accepted guess.
C5_InvalidGuessDrawsNewCommitment ==
    [][(status = "running" /\ phase = "DetermineFirstMover") =>
          /\ (~is_exit(lastInput') /\ ~is_help(lastInput')
                /\ ~(int_ok(stripped(lastInput')) /\ int(stripped(lastInput')) \in {0, 1})) =>
                /\ phase' = "DetermineFirstMover"
                /\ status' = "running"
                /\ first_mover' = "none"
                /\ revealed' = revealed
                /\ nCommits' = nCommits + 1
                /\ pending'.value \in {0, 1}
                /\ pending'.tag = KeyedHash(pending'.key, pending'.value)
                /\ published' = pending'.tag
          /\ phase' = "SelectDice" =>
                /\ published = pending.tag
                /\ revealed'.tag = published
                /\ revealed'.value = pending.value
                /\ first_mover' = "computer" <=> pending.value # int(stripped(lastInput'))]_vars

C5_Witness ==
    /\ phase = "DetermineFirstMover"
    /\ status = "running"
    /\ lastInput = <<"2">>
    /\ nCommits = 2
    /\ pending # NoCommit
    /\ revealed = NoReveal

\* C6: malformed input at any interactive step is contained in that step: the
\* same step is prompted again and the game neither terminates nor lets an
\* error escape, also for a non-numeric or out-of-range index at die selection.
C6_MalformedInputContained ==
    [][(status = "running"
          /\ phase \in {"DetermineFirstMover", "SelectDice", "ThrowComputer", "ThrowUser"}
          /\ ~is_exit(lastInput') /\ ~is_help(lastInput')
          /\ \/ ~int_ok(stripped(lastInput'))
             \/ phase = "DetermineFirstMover" /\ int(stripped(lastInput')) \notin {0, 1}
             \/ phase = "SelectDice" /\ ~in_list(int(stripped(lastInput')), remaining_dice)
             \/ phase \in {"ThrowComputer", "ThrowUser"} /\ int(stripped(lastInput')) \notin 0 .. 5) =>
          /\ status' = "running"
          /\ phase' = phase]_vars

\* C7: whenever the computer selects, it takes the lowest index available at
\* that moment: 0 when it moves first, the smallest index other than the
\* human's when it moves second.
C7_ComputerTakesLowest ==
    computer_choice # NoDie =>
        /\ first_mover = "computer" => computer_choice = 0
        /\ first_mover = "user" =>
              /\ user_choice # NoDie
              /\ computer_choice \in (0 .. (Len(dice) - 1)) \ {user_choice}
              /\ \A j \in (0 .. (Len(dice) - 1)) \ {user_choice} : computer_choice <= j

C7_Witness ==
    /\ first_mover = "user"
    /\ user_choice = 0
    /\ computer_choice = 1
    /\ Len(dice) = 3

\* C8: each selection removes the chosen index from the pool, the human is only
\* bound to an index that is in the pool when chosen, and when the first throw
\* begins both parties are bound to different dice.
C8_SelectionsRemoveAndDiffer ==
    /\ [](phase \in {"ThrowComputer", "ThrowUser", "Resolved"} =>
             /\ computer_choice \in 0 .. (Len(dice) - 1)
             /\ user_choice \in 0 .. (Len(dice) - 1)
             /\ computer_choice # user_choice
             /\ \A i \in 1 .. Len(remaining_dice) :
                    remaining_dice[i] \notin {computer_choice, user_choice}
             /\ Len(remaining_dice) = Len(dice) - 2)
    /\ [][/\ user_choice' # user_choice =>
                /\ \E i \in 1 .. Len(remaining_dice) : remaining_dice[i] = user_choice'
                /\ \A i \in 1 .. Len(remaining_dice') : remaining_dice'[i] # user_choice'
          /\ computer_choice' # computer_choice =>
                /\ \E i \in 1 .. Len(remaining_dice) : remaining_dice[i] = computer_choice'
                /\ \A i \in 1 .. Len(remaining_dice') : remaining_dice'[i] # computer_choice']_vars

C8_Witness ==
    /\ phase = "ThrowComputer"
    /\ first_mover = "user"
    /\ user_choice = 0
    /\ computer_choice = 1
    /\ remaining_dice = <<2>>

\* C9: the states are passed in the order DetermineFirstMover, SelectDice,
\* ThrowComputer, ThrowUser, Resolved, none skipped and none re-entered, and
\* the computer's throw is complete before the human's throw begins.
C9_FixedStateOrder ==
    /\ [][phase' # phase =>
             <<phase, phase'>> \in { <<"Start", "DetermineFirstMover">>,
                                     <<"DetermineFirstMover", "SelectDice">>,
                                     <<"SelectDice", "ThrowComputer">>,
                                     <<"ThrowComputer", "ThrowUser">>,
                                     <<"ThrowUser", "Resolved">> }]_vars
    /\ [](phase \in {"ThrowUser", "Resolved"} => Len(computer_throw) = 1)
    /\ [](phase # "Resolved" => user_throw = <<>>)
    /\ [](phase \in {"Start", "DetermineFirstMover", "SelectDice", "ThrowComputer"}
             => computer_throw = <<>>)

C9_Witness ==
    /\ phase = "Resolved"
    /\ first_mover = "user"
    /\ Len(computer_throw) = 1
    /\ Len(user_throw) = 1

\* C10: every throw's outcome is the face at position (c + u) mod 6 of the die
\* bound to the throwing party, and that position is within 0..5.
C10_ThrowIsFaceAtCombinedIndex ==
    /\ revealed.exchange \in {"computer_throw", "user_throw"} =>
          /\ revealed.value \in 0 .. 5
          /\ revealed.user \in 0 .. 5
          /\ revealed.result \in 0 .. 5
          /\ revealed.result = (revealed.value + revealed.user) % 6
    /\ revealed.exchange = "computer_throw" =>
          computer_throw = <<dice[computer_choice + 1][revealed.result + 1]>>
    /\ revealed.exchange = "user_throw" =>
          user_throw = <<dice[user_choice + 1][revealed.result + 1]>>

C10_Witness ==
    /\ revealed.exchange = "user_throw"
    /\ revealed.value + revealed.user >= 6
    /\ user_throw = <<dice[user_choice + 1][revealed.result + 1]>>
    /\ phase = "Resolved"

\* C11: in Resolved exactly one outcome is declared from the two faces: the
\* human wins iff its face is strictly greater, the computer wins iff its face
\* is strictly greater, a tie iff they are equal; nothing follows Resolved.
C11_ResolvedOutcome ==
    /\ [](phase = "Resolved" =>
             /\ Len(user_throw) = 1 /\ Len(computer_throw) = 1
             /\ outcome \in {"user", "computer", "tie"}
             /\ outcome = "user" <=> user_throw[1] > computer_throw[1]
             /\ outcome = "computer" <=> computer_throw[1] > user_throw[1]
             /\ outcome = "tie" <=> user_throw[1] = computer_throw[1]
             /\ status = "finished"
             /\ pending = NoCommit)
    /\ [](phase # "Resolved" => outcome = "none")
    /\ [][phase = "Resolved" => UNCHANGED vars]_vars

C11_Witness ==
    /\ phase = "Resolved"
    /\ outcome = "tie"
    /\ user_throw = computer_throw
    /\ user_choice # computer_choice

\* C12: at every prompt the line X or x ends the session at once with exit
\* status 0: no die is bound or removed, the pending commitment's value and
\* key are not revealed, and no step follows.
C12_ExitIsImmediate ==
    /\ [][(status = "running" /\ is_exit(lastInput')) =>
             /\ status' = "exited"
             /\ exit_code' = 0
             /\ UNCHANGED <<phase, dice, remaining_dice, first_mover,
                            computer_choice, user_choice, computer_throw,
                            user_throw, outcome, pending, published,
                            revealed, nRevealed, nCommits>>]_vars
    /\ [][status = "exited" => UNCHANGED vars]_vars
    /\ [](status = "exited" =>
             /\ is_exit(lastInput)
             /\ exit_code = 0
             /\ phase \in {"DetermineFirstMover", "SelectDice",
                           "ThrowComputer", "ThrowUser"}
             /\ revealed.exchange =
                   (CASE phase = "DetermineFirstMover" -> "none"
                      [] phase = "SelectDice" -> "first_move"
                      [] phase = "ThrowComputer" -> "first_move"
                      [] phase = "ThrowUser" -> "computer_throw"))

C12_Witness ==
    /\ status = "exited"
    /\ exit_code = 0
    /\ phase = "ThrowUser"
    /\ lastInput = <<"X">>
    /\ pending # NoCommit
    /\ revealed.exchange = "computer_throw"

\* C13 as stated: every argument list with fewer than 3 dice (0, 1 or 2) gets
\* the too-few-dice error and nothing else happens.
C13_FewerThanThreeIsTooFewError ==
    (Len(argv) < 3 /\ status # "start") =>
        /\ status = "error"
        /\ message = TooFewMessage
        /\ phase = "Start" /\ dice = <<>> /\ nCommits = 0
        /\ published = NoTag /\ lastInput = NoInput

\* C13 amended: an argument list of 1 or 2 dice gets the too-few-dice error,
\* an empty one gets the usage text and no error; in both cases no game is
\* created, no commitment is published and no prompt is shown.
C13_TooFewErrorOrUsage ==
    (Len(argv) < 3 /\ status # "start") =>
        /\ Len(argv) \in {1, 2} => status = "error" /\ message = TooFewMessage
        /\ Len(argv) = 0 => status = "usage" /\ message = ""
        /\ exit_code = 0
        /\ phase = "Start" /\ dice = <<>> /\ remaining_dice = <<>>
        /\ nCommits = 0 /\ pending = NoCommit /\ published = NoTag
        /\ lastInput = NoInput /\ help_table = <<>>

C13_Witness ==
    /\ Len(argv) = 2
    /\ \A i \in 1 .. Len(argv) : arg_ok(argv[i])
    /\ status = "error"
    /\ message = TooFewMessage
    /\ nCommits = 0

\* C14: with at least 3 dice of which one has a number of integer faces other
\* than 6, construction fails with the wrong-face-count error, a kind distinct
\* from the non-integer-face error, and gameplay never starts.
C14_WrongFaceCountIsDistinctError ==
    (/\ status # "start"
     /\ Len(argv) >= 3
     /\ \E i \in 1 .. Len(argv) :
           /\ \A k \in 1 .. (i - 1) : arg_ok(argv[k])
           /\ \A k \in 1 .. Len(split(argv[i], ",")) : int_ok(split(argv[i], ",")[k])
           /\ Len(split(argv[i], ",")) # FaceCount) =>
        /\ status = "error"
        /\ phase = "Start"
        /\ nCommits = 0
        /\ message = FaceCountMessage
        /\ message # InvalidMessage

\* C15: for all pairs of 6-faced dice A and B, the face pairs with A > B, those
\* with B > A and the exact ties add up to 36; compare_dice(A, B) +
\* compare_dice(B, A) is 1 minus the tie mass (to the last of the four digits
\* compare_dice keeps), and exactly 1 when A and B share no face value.
C15_WinsAndTiesPartitionThePairs ==
    dice # <<>> =>
        \A i, j \in 1 .. Len(dice) :
            LET a == dice[i]
                b == dice[j]
                ties == Cardinality({p \in (1 .. 6) \X (1 .. 6) : a[p[1]] = b[p[2]]})
                tie_mass == (2 * 10000 * ties + 36) \div 72
                both == compare_dice(a, b) + compare_dice(b, a)
            IN  /\ Len(a) = 6 /\ Len(b) = 6
                /\ total_count(a, b) = 36
                /\ win_count(a, b) + win_count(b, a) + ties = 36
                /\ both - (10000 - tie_mass) \in {-1, 0, 1}
                /\ ties = 0 => both = 10000
                /\ ties = 36 => both = 0

C15_Witness ==
    /\ help_table # <<>>
    /\ win_count(dice[1], dice[2]) > 0
    /\ win_count(dice[2], dice[1]) > 0
    /\ \E p \in (1 .. 6) \X (1 .. 6) : dice[1][p[1]] = dice[2][p[2]]
    /\ help_table[1][2] = compare_dice(dice[1], dice[2])

\* C16: every diagonal entry [i][i] of the matrix equals
\* compare_dice(dice[i], dice[i]): it is computed by the same enumeration as
\* the other entries, not written as a constant.
C16_DiagonalIsSelfComparison ==
    help_table # <<>> =>
        \A i \in 1 .. Len(dice) :
            help_table[i][i] = compare_dice(dice[i], dice[i])

\* C17: for every fixed human number u the map v -> (v + u) mod 6 is a
\* bijection of 0..5, and for every fixed committed v so is u -> (v + u) mod 6:
\* every throw index arises from exactly one committed value and from exactly
\* one human number.
C17_CombineIsBijective ==
    /\ \A u \in 0 .. 5 : \A r \in 0 .. 5 :
           Cardinality({v \in 0 .. 5 : combine(v, u) = r}) = 1
    /\ \A v \in 0 .. 5 : \A r \in 0 .. 5 :
           Cardinality({u \in 0 .. 5 : combine(v, u) = r}) = 1
    /\ revealed.exchange \in {"computer_throw", "user_throw"} =>
           /\ {v \in 0 .. 5 : combine(v, revealed.user) = revealed.result}
                 = {revealed.value}
           /\ {u \in 0 .. 5 : combine(revealed.value, u) = revealed.result}
                 = {revealed.user}

C17_Witness ==
    /\ revealed.exchange = "computer_throw"
    /\ revealed.value = 5
    /\ revealed.user = 1
    /\ revealed.result = 0

\* C18: in every exchange the value and key revealed are the ones the tag
\* shown at the answered prompt was computed from, and the value that decides
\* the first mover or the throw index is that revealed value.
C18_RevealMatchesPublishedTag ==
    /\ [](revealed # NoReveal =>
             /\ revealed.tag = KeyedHash(revealed.key, revealed.value)
             /\ revealed.exchange = "first_move" =>
                   /\ revealed.value \in {0, 1}
                   /\ first_mover = "computer" <=> revealed.value # revealed.user
             /\ revealed.exchange \in {"computer_throw", "user_throw"} =>
                   /\ revealed.value \in 0 .. 5
                   /\ revealed.result = (revealed.value + revealed.user) % 6)
    /\ [][revealed' # revealed =>
             /\ pending # NoCommit
             /\ published = pending.tag
             /\ revealed'.tag = published
             /\ revealed'.value = pending.value
             /\ revealed'.key = pending.key
             /\ revealed'.user = int(stripped(lastInput'))]_vars

C18_Witness ==
    /\ revealed.exchange = "user_throw"
    /\ revealed.tag = KeyedHash(revealed.key, revealed.value)
    /\ revealed.key = MaxKey - 1
    /\ revealed.user = 1
    /\ ~int_ok(lastInput)
    /\ int_ok(stripped(lastInput))
    /\ phase = "Resolved"

\* C19: the dice never change and the pool changes only by die selection: a
\* help request, a rejected input, a first-move exchange and a throw leave the
\* pool and both bindings as they are; the pool is an ascending duplicate-free
\* list of valid indices, of size N before selection and N - 2 once both
\* parties are bound.
C19_PoolChangesOnlyBySelection ==
    /\ [](status \notin {"start", "usage", "error"} \/ phase # "Start" =>
             /\ dice = parse(argv).dice
             /\ \A i \in 1 .. Len(remaining_dice) :
                    remaining_dice[i] \in 0 .. (Len(dice) - 1)
             /\ \A i \in 1 .. (Len(remaining_dice) - 1) :
                    remaining_dice[i] < remaining_dice[i + 1]
             /\ Len(remaining_dice) = Len(dice)
                    - (IF computer_choice = NoDie THEN 0 ELSE 1)
                    - (IF user_choice = NoDie THEN 0 ELSE 1)
             /\ phase = "DetermineFirstMover" => Len(remaining_dice) = Len(dice)
             /\ phase \in {"ThrowComputer", "ThrowUser", "Resolved"} =>
                    Len(remaining_dice) = Len(dice) - 2)
    /\ [][phase # "Start" => dice' = dice]_vars
    /\ [][(phase \in {"ThrowComputer", "ThrowUser", "Resolved"}
             \/ (phase = "DetermineFirstMover" /\ phase' = "DetermineFirstMover")
             \/ (phase = "DetermineFirstMover" /\ first_mover' = "user")
             \/ (phase # "Start" /\ is_help(lastInput'))
             \/ (phase = "SelectDice" /\ phase' = "SelectDice")) =>
             UNCHANGED <<remaining_dice, computer_choice, user_choice>>]_vars
    /\ [][remaining_dice' # remaining_dice /\ phase # "Start" =>
             /\ computer_choice' # computer_choice \/ user_choice' # user_choice
             /\ \A k \in 0 .. (Len(dice) - 1) :
                    (\E i \in 1 .. Len(remaining_dice') : remaining_dice'[i] = k)
                    <=> /\ \E i \in 1 .. Len(remaining_dice) : remaining_dice[i] = k
                        /\ k \notin {computer_choice', user_choice'}]_vars

C19_Witness ==
    /\ phase = "SelectDice"
    /\ status = "running"
    /\ first_mover = "computer"
    /\ is_help(lastInput)
    /\ help_table # <<>>
    /\ remaining_dice = <<1, 2>>

\* C20: a game started with at least 3 valid dice ends either in Resolved with
\* exactly one declared outcome, after exactly three reveals, or by exit.
C20_EndsResolvedOrExited ==
    (Len(argv) >= 3 /\ parse(argv).ok /\ status \notin {"start", "running"}) =>
        \/ /\ status = "finished"
           /\ phase = "Resolved"
           /\ outcome \in {"user", "computer", "tie"}
           /\ nRevealed = 3
        \/ /\ status = "exited"
           /\ is_exit(lastInput)

====
